---- MODULE Spec2Model ----
(***************************************************************************)
(* cfdnsupdater: main() validates the flags, starts updateHostLoop and the *)
(* HTTP server; the loop calls getIP and updateHost and sleeps, forever.   *)
(* Strings are sequences of one-character strings, so that HasSuffix,      *)
(* TrimSpace and the first-byte test of the URL prefix are computed.       *)
(* The registrar (Cloudflare) and the IP service are the environment: each *)
(* call may fail, and another writer may change the zone at any time.      *)
(***************************************************************************)
EXTENDS Integers, Sequences, FiniteSets, TLC

\* ------------------------------------------------------------ bounds
\* Record IDs the registrar hands out: 1..MaxRecords.
MaxRecords == 2
\* The registrar accepts at most this many writes of the updater.
MaxUpdates == 2
\* Changes made to the zone by writers other than the updater.
MaxExternal == 2

\* ------------------------------------------------------------ strings
Empty == <<>>
Nil == "nil"
\* No IP at all (not even the empty string): a value of the bookkeeping only.
NoIP == <<"-">>

Whitespace == {" ", "\n", "\t", "\r"}

HasSuffix(s, suffix) ==
    /\ Len(s) >= Len(suffix)
    /\ SubSeq(s, Len(s) - Len(suffix) + 1, Len(s)) = suffix

RECURSIVE TrimLeft(_)
TrimLeft(s) ==
    IF s # Empty /\ Head(s) \in Whitespace THEN TrimLeft(Tail(s)) ELSE s

RECURSIVE TrimRight(_)
TrimRight(s) ==
    IF s # Empty /\ s[Len(s)] \in Whitespace
    THEN TrimRight(SubSeq(s, 1, Len(s) - 1))
    ELSE s

TrimSpace(s) == TrimRight(TrimLeft(s))

\* ------------------------------------------------------------ inputs
defaultIPService == "https://ip.shee.sh/"

Zones == {Empty, <<"z">>}
Hosts == {Empty, <<"h", ".", "z">>, <<"h", ".", "o">>}
Emails == {Empty, <<"e">>}
ApiKeys == {Empty, <<"k">>}
UrlPrefixes == {Empty, <<"/", "p">>, <<"p">>}

\* What the IP service can answer: no answer, a status, a body that cannot
\* be read, a body.
Bodies == {<<" ", "a", "\n">>, <<"b">>, Empty}
IPResponses ==
    {[kind |-> "transport", status |-> 0, readOk |-> FALSE, body |-> Empty]}
    \cup {[kind |-> "http", status |-> 503, readOk |-> TRUE, body |-> <<"b">>]}
    \cup {[kind |-> "http", status |-> 200, readOk |-> FALSE, body |-> Empty]}
    \cup {[kind |-> "http", status |-> 200, readOk |-> TRUE, body |-> b] : b \in Bodies}

\* Contents another writer gives its records.
ExternalContents == {<<"a">>, <<"b">>}

VARIABLES
    showVersion,    \* main: -version
    urlprefix,      \* main: -urlprefix
    config,         \* main: the CFUpdateConfig built from the flags
    mainPc,         \* main: "main", "listen", "serving", "exited"
    exitCode,       \* the process's exit status, -1 while it runs
    pc,             \* the loop's goroutine: "idle", "getIP", "zone", "list", "switch", "sleep"
    ip,             \* updateHostLoop: ip
    ipErr,          \* updateHostLoop: err after getIP
    err,            \* updateHost: err
    records,        \* updateHost: records
    ret,            \* updateHostLoop: err after updateHost ("pending" before it returns)
    updateCount,    \* the counter cfdnsupdater_update_count
    dns,            \* the registrar's records of the zone
    calls,          \* bookkeeping: the registrar calls of this cycle, with their outcome
    okWrites,       \* bookkeeping: create and update calls that succeeded
    countAtStart,   \* bookkeeping: updateCount when this cycle began
    external,       \* bookkeeping: changes by other writers so far
    clean,          \* bookkeeping: no other writer acted since this cycle began
    prevOkIp,       \* bookkeeping: the ip the previous cycle reconciled to, with no other writer since
    ipRequested,    \* bookkeeping: a request to the IP service was made
    registrarCalled \* bookkeeping: a registrar call was made

vars == <<showVersion, urlprefix, config, mainPc, exitCode, pc, ip, ipErr, err,
          records, ret, updateCount, dns, calls, okWrites, countAtStart,
          external, clean, prevOkIp, ipRequested, registrarCalled>>

flagVars == <<showVersion, urlprefix, config>>
bookVars == <<okWrites, countAtStart, external, clean, prevOkIp>>

\* ------------------------------------------------------------ main
\* Validate with the check of the email left out.
ValidateNoEmail(prefix, cfg) ==
    IF Len(prefix) > 0 /\ prefix[1] # "/" THEN "urlprefix"
    ELSE IF cfg.Zone = Empty THEN "zone"
    ELSE IF cfg.Host = Empty THEN "host"
    ELSE IF ~HasSuffix(cfg.Host, cfg.Zone) THEN "suffix"
    ELSE IF cfg.ApiKey = Empty THEN "apikey"
    ELSE "ok"

\* The checks of main, in the code's order: the first that fails, or "ok".
Validate(prefix, cfg) ==
    IF Len(prefix) > 0 /\ prefix[1] # "/" THEN "urlprefix"
    ELSE IF cfg.Zone = Empty THEN "zone"
    ELSE IF cfg.Host = Empty THEN "host"
    ELSE IF ~HasSuffix(cfg.Host, cfg.Zone) THEN "suffix"
    ELSE IF cfg.Email = Empty THEN "email"
    ELSE IF cfg.ApiKey = Empty THEN "apikey"
    ELSE "ok"

Running == mainPc \in {"listen", "serving"}

Init ==
    /\ showVersion \in BOOLEAN
    /\ urlprefix \in UrlPrefixes
    /\ config \in [Zone : Zones, Host : Hosts, Email : Emails, ApiKey : ApiKeys,
                   IPService : {defaultIPService}]
    /\ mainPc = "main"
    /\ exitCode = -1
    /\ pc = "idle"
    /\ ip = Empty
    /\ ipErr = Nil
    /\ err = Nil
    /\ records = <<>>
    /\ ret = "pending"
    /\ updateCount = 0
    /\ dns = {}
    /\ calls = <<>>
    /\ okWrites = 0
    /\ countAtStart = 0
    /\ external = 0
    /\ clean = TRUE
    /\ prevOkIp = NoIP
    /\ ipRequested = FALSE
    /\ registrarCalled = FALSE

loopVars == <<pc, ip, ipErr, err, records, ret, updateCount, dns, calls,
              ipRequested, registrarCalled>>

\* main up to the start of the loop: -version, the validation, updateHostLoop.
Main ==
    /\ mainPc = "main"
    /\ IF showVersion
       THEN /\ mainPc' = "exited"
            /\ exitCode' = 0
            /\ pc' = pc
       ELSE IF Validate(urlprefix, config) # "ok"
       THEN /\ mainPc' = "exited"
            /\ exitCode' = 1
            /\ pc' = pc
       ELSE /\ mainPc' = "listen"
            /\ exitCode' = exitCode
            /\ pc' = "getIP"
    /\ UNCHANGED <<flagVars, bookVars, ip, ipErr, err, records, ret, updateCount,
                   dns, calls, ipRequested, registrarCalled>>

\* http.ListenAndServe: it serves, or it fails, main returns and the process
\* (the loop's goroutine with it) ends with status 0.
ListenAndServe ==
    /\ mainPc = "listen"
    /\ \E ok \in BOOLEAN :
        IF ok
        THEN mainPc' = "serving" /\ exitCode' = exitCode
        ELSE mainPc' = "exited" /\ exitCode' = 0
    /\ UNCHANGED <<flagVars, bookVars, loopVars>>

\* ------------------------------------------------------------ getIP
\* getIP's two results for an answer of the IP service.
getIP(resp) ==
    IF resp.kind = "transport" THEN [ip |-> Empty, err |-> "errTransport"]
    ELSE IF resp.status # 200 THEN [ip |-> Empty, err |-> "errStatus"]
    ELSE IF ~resp.readOk THEN [ip |-> Empty, err |-> "errRead"]
    ELSE [ip |-> TrimSpace(resp.body), err |-> Nil]

\* Where the loop goes after getIP returned e: the error is logged and
\* updateHost is called whatever e is.
AfterGetIP(e) == "zone"

\* The previous cycle, if it reconciled to an ip with no other writer since:
\* it returned nil from the zero- or one-record branch.
ReconciledIp ==
    IF pc = "sleep" /\ ret = Nil /\ Len(records) <= 1 /\ clean THEN ip ELSE NoIP

\* One iteration of the loop begins: getIP, its error logged.
GetIP ==
    /\ Running
    /\ pc = "getIP"
    /\ \E resp \in IPResponses :
        /\ ip' = getIP(resp).ip
        /\ ipErr' = getIP(resp).err
        /\ pc' = AfterGetIP(getIP(resp).err)
    /\ err' = Nil
    /\ records' = <<>>
    /\ ret' = "pending"
    /\ calls' = <<>>
    /\ countAtStart' = updateCount
    /\ clean' = TRUE
    /\ prevOkIp' = prevOkIp
    /\ ipRequested' = TRUE
    /\ UNCHANGED <<flagVars, mainPc, exitCode, updateCount, dns, okWrites,
                   external, registrarCalled>>

\* ------------------------------------------------------------ registrar
\* A registrar call as logged: unset fields are 0, Empty and "".
Call(op, id, name, type, content, ok) ==
    [op |-> op, ID |-> id, Name |-> name, Type |-> type, Content |-> content, ok |-> ok]

\* cloudflare.New refuses empty credentials.
NewFails(cfg) == cfg.ApiKey = Empty \/ cfg.Email = Empty

RECURSIVE ByID(_, _)
ByID(S, i) ==
    IF i > MaxRecords THEN <<>>
    ELSE (IF \E r \in S : r.ID = i THEN <<CHOOSE r \in S : r.ID = i>> ELSE <<>>)
         \o ByID(S, i + 1)

\* ListDNSRecords with ListDNSRecordsParams{Name, Type}: the records of that
\* name and type.
ListDNSRecords(d, name, type) ==
    ByID({r \in d : r.Name = name /\ r.Type = type}, 1)

FreeIDs(d) == {i \in 1..MaxRecords : \A r \in d : r.ID # i}

\* The zone after a create that succeeded.
Created(d, params) ==
    d \cup {[ID |-> CHOOSE i \in FreeIDs(d) : \A j \in FreeIDs(d) : i <= j,
             Name |-> params.Name, Type |-> params.Type, Content |-> params.Content]}

\* The zone after an update that succeeded: the fields the call sets.
Updated(d, params) ==
    {IF r.ID = params.ID
     THEN [ID |-> r.ID,
           Name |-> IF params.Name = Empty THEN r.Name ELSE params.Name,
           Type |-> IF params.Type = "" THEN r.Type ELSE params.Type,
           Content |-> params.Content]
     ELSE r : r \in d}

\* ------------------------------------------------------------ updateHost
\* cloudflare.New and api.ZoneIDByName.
ZoneIDByName ==
    /\ Running
    /\ pc = "zone"
    /\ IF NewFails(config)
       THEN /\ err' = "errCredentials"
            /\ ret' = "errCredentials"
            /\ pc' = "sleep"
            /\ UNCHANGED <<calls, registrarCalled>>
       ELSE \E ok \in BOOLEAN :
            /\ calls' = Append(calls, Call("zone", 0, config.Zone, "", Empty, ok))
            /\ registrarCalled' = TRUE
            /\ err' = IF ok THEN Nil ELSE "errZone"
            /\ ret' = IF ok THEN ret ELSE "errZone"
            /\ pc' = IF ok THEN "list" ELSE "sleep"
    /\ UNCHANGED <<flagVars, bookVars, mainPc, exitCode, ip, ipErr, records,
                   updateCount, dns, ipRequested>>

\* api.ListDNSRecords for (Host, "A").
ListRecords ==
    /\ Running
    /\ pc = "list"
    /\ \E ok \in BOOLEAN :
        /\ calls' = Append(calls, Call("list", 0, config.Host, "A", Empty, ok))
        /\ records' = IF ok THEN ListDNSRecords(dns, config.Host, "A") ELSE <<>>
        /\ err' = IF ok THEN Nil ELSE "errList"
        /\ ret' = IF ok THEN ret ELSE "errList"
        /\ pc' = IF ok THEN "switch" ELSE "sleep"
    /\ UNCHANGED <<flagVars, bookVars, mainPc, exitCode, ip, ipErr, updateCount,
                   dns, ipRequested, registrarCalled>>

\* Branch with case 1 always updating.
BranchNoCompare(recs, addr) ==
    IF Len(recs) = 0 THEN "create"
    ELSE IF Len(recs) = 1 THEN "update"
    ELSE "ambiguous"

\* Branch with the comparison of case 1 inverted.
BranchInverted(recs, addr) ==
    IF Len(recs) = 0 THEN "create"
    ELSE IF Len(recs) = 1
         THEN (IF recs[1].Content # addr THEN "noop" ELSE "update")
         ELSE "ambiguous"

\* switch len(records), and the comparison of case 1.
Branch(recs, addr) ==
    IF Len(recs) = 0 THEN "create"
    ELSE IF Len(recs) = 1
         THEN (IF recs[1].Content = addr THEN "noop" ELSE "update")
         ELSE "ambiguous"

\* CreateParams naming the zone instead of the host.
CreateParamsZoneName(cfg, addr) ==
    [ID |-> 0, Name |-> cfg.Zone, Type |-> "A", Content |-> addr]

\* CreateDNSRecordParams of case 0.
CreateParams(cfg, addr) ==
    [ID |-> 0, Name |-> cfg.Host, Type |-> "A", Content |-> addr]

\* UpdateParams sending the old content back.
UpdateParamsOldContent(recs, addr) ==
    [ID |-> recs[1].ID, Name |-> Empty, Type |-> "", Content |-> recs[1].Content]

\* UpdateDNSRecordParams of case 1.
UpdateParams(recs, addr) ==
    [ID |-> recs[1].ID, Name |-> Empty, Type |-> "", Content |-> addr]

\* CountAfter counting the failed calls too.
CountAfterAlways(count, ok) == count + 1

\* updateCount after a create or an update that returned ok.
CountAfter(count, ok) == IF ok THEN count + 1 ELSE count

\* AfterUpdateHost with the switch entered again instead of returning.
AfterUpdateHostAgain == "switch"

\* Where the loop goes when updateHost has returned.
AfterUpdateHost == "sleep"

\* What the default branch returns: err, as ListDNSRecords left it.
AmbiguousReturn(e) == e

\* case 0: api.CreateDNSRecord.
CreateDNSRecord ==
    /\ Running
    /\ pc = "switch"
    /\ Branch(records, ip) = "create"
    /\ LET params == CreateParams(config, ip) IN
       \E ok \in {TRUE, FALSE} :
        /\ ok => (FreeIDs(dns) # {} /\ updateCount < MaxUpdates)
        /\ calls' = Append(calls, Call("create", params.ID, params.Name,
                                       params.Type, params.Content, ok))
        /\ dns' = IF ok THEN Created(dns, params) ELSE dns
        /\ okWrites' = IF ok THEN okWrites + 1 ELSE okWrites
        /\ updateCount' = CountAfter(updateCount, ok)
        /\ ret' = IF ok THEN Nil ELSE "errCreate"
    /\ pc' = AfterUpdateHost
    /\ UNCHANGED <<flagVars, mainPc, exitCode, ip, ipErr, err, records,
                   countAtStart, external, clean, prevOkIp, ipRequested,
                   registrarCalled>>

\* case 1, the content differs: api.UpdateDNSRecord.
UpdateDNSRecord ==
    /\ Running
    /\ pc = "switch"
    /\ Branch(records, ip) = "update"
    /\ LET params == UpdateParams(records, ip) IN
       \E ok \in {TRUE, FALSE} :
        /\ ok => ((\E r \in dns : r.ID = params.ID) /\ updateCount < MaxUpdates)
        /\ calls' = Append(calls, Call("update", params.ID, params.Name,
                                       params.Type, params.Content, ok))
        /\ dns' = IF ok THEN Updated(dns, params) ELSE dns
        /\ okWrites' = IF ok THEN okWrites + 1 ELSE okWrites
        /\ updateCount' = CountAfter(updateCount, ok)
        /\ err' = IF ok THEN Nil ELSE "errUpdate"
        /\ ret' = IF ok THEN Nil ELSE "errUpdate"
    /\ pc' = AfterUpdateHost
    /\ UNCHANGED <<flagVars, mainPc, exitCode, ip, ipErr, records,
                   countAtStart, external, clean, prevOkIp, ipRequested,
                   registrarCalled>>

\* case 1, the content is ip already.
AlreadyCorrect ==
    /\ Running
    /\ pc = "switch"
    /\ Branch(records, ip) = "noop"
    /\ ret' = Nil
    /\ pc' = AfterUpdateHost
    /\ UNCHANGED <<flagVars, bookVars, mainPc, exitCode, ip, ipErr, err, records,
                   updateCount, dns, calls, ipRequested, registrarCalled>>

\* default: more than one record.
TooManyRecords ==
    /\ Running
    /\ pc = "switch"
    /\ Branch(records, ip) = "ambiguous"
    /\ ret' = AmbiguousReturn(err)
    /\ pc' = AfterUpdateHost
    /\ UNCHANGED <<flagVars, bookVars, mainPc, exitCode, ip, ipErr, err, records,
                   updateCount, dns, calls, ipRequested, registrarCalled>>

\* AfterSleep with the loop ending after one iteration.
AfterSleepDone == "done"

\* Where the loop goes after time.Sleep.
AfterSleep == "getIP"

\* The error of updateHost is logged; time.Sleep; the next iteration.
Sleep ==
    /\ Running
    /\ pc = "sleep"
    /\ pc' = AfterSleep
    /\ prevOkIp' = ReconciledIp
    /\ UNCHANGED <<flagVars, mainPc, exitCode, ip, ipErr, err, records, ret,
                   updateCount, dns, calls, okWrites, countAtStart, external,
                   clean, ipRequested, registrarCalled>>

\* ------------------------------------------------------------ other writers
\* The zones another writer can make of d in one change: a record added (of
\* the host, or of another type under the same name), or a record deleted.
ExternalChanges(d) ==
    {Created(d, [Name |-> config.Host, Type |-> "A", Content |-> c]) :
        c \in IF FreeIDs(d) = {} THEN {} ELSE ExternalContents}
    \cup {Created(d, [Name |-> config.Host, Type |-> "AAAA", Content |-> c]) :
        c \in IF FreeIDs(d) = {} THEN {} ELSE {<<"6">>}}
    \cup {d \ {r} : r \in d}

ExternalWrite ==
    /\ Running
    /\ external < MaxExternal
    /\ \E d \in ExternalChanges(dns) : dns' = d
    /\ external' = external + 1
    /\ clean' = FALSE
    /\ prevOkIp' = NoIP
    /\ UNCHANGED <<flagVars, mainPc, exitCode, pc, ip, ipErr, err, records, ret,
                   updateCount, calls, okWrites, countAtStart, ipRequested,
                   registrarCalled>>

\* ------------------------------------------------------------ specification
LoopNext ==
    \/ GetIP
    \/ ZoneIDByName
    \/ ListRecords
    \/ CreateDNSRecord
    \/ UpdateDNSRecord
    \/ AlreadyCorrect
    \/ TooManyRecords
    \/ Sleep

Next ==
    \/ Main
    \/ ListenAndServe
    \/ LoopNext
    \/ ExternalWrite

Spec == Init /\ [][Next]_vars

\* The goroutine is scheduled, the calls return and the sleep ends.
FairSpec == Spec /\ WF_vars(LoopNext)

\* ------------------------------------------------------------ claims
IsWrite(c) == c.op \in {"create", "update"}
Writes(cs) == SelectSeq(cs, IsWrite)
\* The listing of this cycle succeeded.
ListedOk == \E i \in 1..Len(calls) : calls[i].op = "list" /\ calls[i].ok
\* updateHost has returned.
Returned == pc = "sleep"
InCycle == pc \in {"zone", "list", "switch", "sleep"}
HostRecords == ListDNSRecords(dns, config.Host, "A")

\* C1: when two or more A records were listed, updateHost has issued no
\* create and no update call and has returned a non-nil error.
C1_AmbiguousReturnsError ==
    (Returned /\ ListedOk /\ Len(records) >= 2)
        => (Writes(calls) = <<>> /\ ret # Nil)

\* C2: in a cycle whose getIP returned an error no registrar call is made and
\* the Update Counter keeps its value.
C2_ResolverErrorAbandonsCycle ==
    (InCycle /\ ipErr # Nil) => (calls = <<>> /\ updateCount = countAtStart)

\* C3: when the zone lookup and the listing succeeded and zero records were
\* listed, updateHost has issued exactly one write call, a create carrying
\* (Host, "A", ip); if it succeeded the counter is one higher and nil is returned.
C3_ZeroRecordsCreate ==
    (Returned /\ ListedOk /\ Len(records) = 0)
        => /\ Len(Writes(calls)) = 1
           /\ Writes(calls)[1].op = "create"
           /\ Writes(calls)[1].Name = config.Host
           /\ Writes(calls)[1].Type = "A"
           /\ Writes(calls)[1].Content = ip
           /\ Writes(calls)[1].ok => (updateCount = countAtStart + 1 /\ ret = Nil)

C3_Witness ==
    /\ Returned /\ ListedOk /\ Len(records) = 0
    /\ Len(Writes(calls)) = 1 /\ Writes(calls)[1].ok
    /\ ip # Empty

\* C4: when exactly one record was listed and its content differs from ip,
\* updateHost has issued exactly one write call, an update of that record's
\* ID that sets the content to ip and neither name nor type; if it succeeded
\* the counter is one higher, nil is returned and (no other writer having
\* acted) the record is the listed one with content ip.
C4_OneRecordUpdate ==
    (Returned /\ ListedOk /\ Len(records) = 1 /\ records[1].Content # ip)
        => /\ Len(Writes(calls)) = 1
           /\ Writes(calls)[1].op = "update"
           /\ Writes(calls)[1].ID = records[1].ID
           /\ Writes(calls)[1].Content = ip
           /\ Writes(calls)[1].Name = Empty
           /\ Writes(calls)[1].Type = ""
           /\ Writes(calls)[1].ok =>
                /\ updateCount = countAtStart + 1
                /\ ret = Nil
                /\ clean => [records[1] EXCEPT !.Content = ip] \in dns

C4_Witness ==
    /\ Returned /\ ListedOk /\ Len(records) = 1 /\ records[1].Content # ip
    /\ Len(Writes(calls)) = 1 /\ Writes(calls)[1].ok
    /\ clean

\* C5: when exactly one record was listed and its content equals ip,
\* updateHost has issued no write call, the counter keeps its value, nil is
\* returned and (no other writer having acted) the record is as listed.
C5_OneRecordNoOp ==
    (Returned /\ ListedOk /\ Len(records) = 1 /\ records[1].Content = ip)
        => /\ Writes(calls) = <<>>
           /\ updateCount = countAtStart
           /\ ret = Nil
           /\ clean => records[1] \in dns

C5_Witness ==
    /\ Returned /\ ListedOk /\ Len(records) = 1 /\ records[1].Content = ip
    /\ clean /\ updateCount >= 1

\* C6: the Update Counter always equals the number of create and update
\* calls that succeeded, and no step decreases it.
C6_CounterCountsSuccessfulWrites ==
    /\ [](updateCount = okWrites)
    /\ [][updateCount' >= updateCount]_vars

C6_Witness ==
    /\ updateCount >= 1
    /\ Returned /\ Writes(calls) # <<>> /\ ~Writes(calls)[1].ok

\* C7: while the process runs the started loop can always take a step, a call
\* that failed is the last call of its cycle, and the loop is always eventually
\* at getIP and always eventually past it.
C7_LoopNeverTerminates ==
    /\ []((Running /\ pc # "idle") => ENABLED LoopNext)
    /\ [](\A i \in 1..Len(calls) : ~calls[i].ok => i = Len(calls))
    /\ []<>(pc = "getIP" \/ ~Running)
    /\ []<>(pc # "getIP" \/ ~Running)

C7_Witness ==
    /\ mainPc = "serving"
    /\ pc = "getIP"
    /\ ret \notin {Nil, "pending"}
    /\ updateCount >= 1

\* C8: what the claim lists as a valid start.
ValidStartup ==
    /\ config.Zone # Empty
    /\ config.Host # Empty
    /\ config.Email # Empty
    /\ config.ApiKey # Empty
    /\ HasSuffix(config.Host, config.Zone)
    /\ urlprefix = Empty \/ Head(urlprefix) = "/"

\* C8: once main has run with a configuration that fails validation, the
\* process has exited with status 1, the loop and the server were not started
\* and no IP request and no registrar call was made; and the loop runs only
\* with a configuration that passes every check.
C8_ValidationBeforeLoop ==
    /\ (mainPc # "main" /\ ~showVersion /\ ~ValidStartup)
        => /\ mainPc = "exited"
           /\ exitCode = 1
           /\ pc = "idle"
           /\ ~ipRequested
           /\ ~registrarCalled
    /\ pc # "idle" => ValidStartup

C8_Witness ==
    /\ mainPc = "exited" /\ exitCode = 1
    /\ config.Zone # Empty /\ config.Host # Empty
    /\ ~HasSuffix(config.Host, config.Zone)

\* C9: a cycle's registrar calls are a zone lookup, then a listing, then at
\* most one write; and the loop is back at getIP only when updateHost has
\* returned.
C9_AtMostOneWritePerCycle ==
    /\ Len(Writes(calls)) <= 1
    /\ Len(calls) <= 3
    /\ Len(calls) >= 1 => calls[1].op = "zone"
    /\ Len(calls) >= 2 => calls[2].op = "list"
    /\ Len(calls) >= 3 => IsWrite(calls[3])
    /\ (pc = "getIP" /\ ipRequested) => ret # "pending"

C9_Witness ==
    /\ countAtStart >= 1
    /\ Returned
    /\ Len(Writes(calls)) = 1

\* C10: after an updateHost that started from zero or one record and returned
\* nil, with no other writer, exactly one A record of the host exists and its
\* content is ip; and a following updateHost with the same ip issues no
\* write call and leaves the counter as it was.
C10_ConvergesAndIdempotent ==
    /\ ReconciledIp # NoIP
        => (Len(HostRecords) = 1 /\ HostRecords[1].Content = ip)
    /\ (InCycle /\ prevOkIp = ip)
        => (Writes(calls) = <<>> /\ updateCount = countAtStart)

C10_Witness ==
    /\ Returned /\ prevOkIp = ip /\ ListedOk /\ ret = Nil
    /\ updateCount >= 1

====
